---- MODULE Spec2Model ----
(***************************************************************************)
(* Model of account_manager.py: the credential store update cycle          *)
(* (AccountManager.save_credentials_to_profile), the role assumption       *)
(* command (AccountManager.assume_role, log_access) and the command line   *)
(* dispatch (main, load_config).                                           *)
(*                                                                         *)
(* A text line is a record                                                 *)
(*   t    : "blank" (only whitespace), "hdr" (stripped text is "[name]"),  *)
(*          "kv" (any other text not starting with "["), "brk" (text that  *)
(*          starts with "[" and is no header), "nul" (zero bytes left by a *)
(*          write past the end of the file)                                *)
(*   name : the section name of a header, the key of a kv line             *)
(*   val  : the credential value a kv line carries (0: none)               *)
(*   ind  : the line starts with whitespace                                *)
(*   nl   : the line ends with a line terminator                           *)
(* A file is the sequence of lines readlines() returns for it: only its    *)
(* last line can lack the terminator.                                      *)
(***************************************************************************)
EXTENDS Integers, Sequences, FiniteSets, TLC

\* ---------------------------------------------------------------- bounds
\* Longest initial credential store, in lines, of the store specifications.
MaxLen == 3
\* Longest initial credential store, in lines, of the command line specification.
MaxCliLen == 0
\* Number of command line runs one behaviour of SpecCli makes.
MaxRuns == 2
\* Longest initial credential store, in lines, of the two-writer specification.
MaxConcLen == 1
\* Number of save_credentials_to_profile calls one behaviour of SpecSeq makes.
MaxSeqCalls == 3

\* ------------------------------------------------------------- vocabulary
Procs == {1, 2}
Profiles == {"assumed-dev", "assumed-main"}
Creds == {1, 2}
None == 0

Line(t, name, val, ind, nl) ==
    [t |-> t, name |-> name, val |-> val, ind |-> ind, nl |-> nl]

\* "\n", the separator line 212 appends.
BlankLine == Line("blank", "", 0, FALSE, TRUE)

\* Whitespace without a terminator: a blank last line of a file.
BlankTail == Line("blank", "", 0, TRUE, FALSE)

Header(n, ind) == Line("hdr", n, 0, ind, TRUE)

\* The lines an initial credential store is made of.
Alphabet ==
    {BlankLine, Line("kv", "k", 0, FALSE, TRUE), Line("brk", "", 0, FALSE, TRUE)}
        \cup {Header(n, i) : n \in Profiles, i \in BOOLEAN}

SeqsUpTo(S, n) == UNION {[1..k -> S] : k \in 0..n}

\* The file whose last line has lost its terminator (a blank last line is
\* then made of whitespace).
Unterminated(f) ==
    IF f = <<>> THEN f
    ELSE [f EXCEPT ![Len(f)] =
            IF @.t = "blank" THEN BlankTail ELSE [@ EXCEPT !.nl = FALSE]]

\* -------------------------------------------------------- python strings
\* line.strip() == ''
IsBlank(line) == line.t = "blank"

\* The header test as it would be without strip(): line == f"[{profile_name}]\n".
IsTargetHeaderNoStrip(line, profile_name) ==
    line.t = "hdr" /\ line.name = profile_name /\ ~line.ind

\* line.strip() == f"[{profile_name}]"
IsTargetHeader(line, profile_name) ==
    line.t = "hdr" /\ line.name = profile_name

\* line.startswith('[')
StartsWithBracket(line) == line.t \in {"hdr", "brk"} /\ ~line.ind

\* The blank-line test as it would be without lines 202-205: nothing is dropped.
CollapseNever(lines, i) == FALSE

\* Lines 202-203: a blank line followed by a blank line is dropped.
CollapseBlank(lines, i) ==
    IsBlank(lines[i]) /\ i + 1 <= Len(lines) /\ IsBlank(lines[i + 1])

\* Lines 187-208: the scan from index i with the skip flag and the lines
\* kept so far.
RECURSIVE ScanFrom(_, _, _, _, _)
ScanFrom(lines, profile_name, i, skip, kept) ==
    IF i > Len(lines) THEN kept
    ELSE IF IsTargetHeader(lines[i], profile_name)
         THEN ScanFrom(lines, profile_name, i + 1, TRUE, kept)
         ELSE LET skip2 == skip /\ ~StartsWithBracket(lines[i])
              IN  IF ~skip2 /\ ~CollapseBlank(lines, i)
                  THEN ScanFrom(lines, profile_name, i + 1, skip2,
                                Append(kept, lines[i]))
                  ELSE ScanFrom(lines, profile_name, i + 1, skip2, kept)

\* Lines 191-193: profile_found.
ProfileFound(lines, profile_name) ==
    \E i \in 1..Len(lines) : IsTargetHeader(lines[i], profile_name)

\* The separator test as it would be without the look at the last line kept.
NeedsSeparatorAlways(kept) == kept # <<>>

\* Line 211.
NeedsSeparator(kept) == kept # <<>> /\ ~IsBlank(kept[Len(kept)])

\* The new block as it would be with lines 216 and 217 exchanged.
NewBlockSwapped(profile_name, credentials) ==
    << Header(profile_name, FALSE),
       Line("kv", "aws_secret_access_key", credentials, FALSE, TRUE),
       Line("kv", "aws_access_key_id", credentials, FALSE, TRUE),
       Line("kv", "aws_session_token", credentials, FALSE, TRUE) >>

\* Lines 215-218.
NewBlock(profile_name, credentials) ==
    << Header(profile_name, FALSE),
       Line("kv", "aws_access_key_id", credentials, FALSE, TRUE),
       Line("kv", "aws_secret_access_key", credentials, FALSE, TRUE),
       Line("kv", "aws_session_token", credentials, FALSE, TRUE) >>

\* new_lines as it would be with skip = True at line 185: the lines before the
\* first line that starts a section are dropped.
NewLinesSkipping(lines, profile_name, credentials) ==
    LET kept == ScanFrom(lines, profile_name, 1, TRUE, <<>>)
    IN  kept \o (IF NeedsSeparator(kept) THEN <<BlankLine>> ELSE <<>>)
             \o NewBlock(profile_name, credentials)

\* Lines 183-218: new_lines.
NewLines(lines, profile_name, credentials) ==
    LET kept == ScanFrom(lines, profile_name, 1, FALSE, <<>>)
    IN  kept \o (IF NeedsSeparator(kept) THEN <<BlankLine>> ELSE <<>>)
             \o NewBlock(profile_name, credentials)

\* The line two adjacent strings make when the first has no terminator.
Join(a, b) ==
    IF a.t = "blank" THEN [b EXCEPT !.ind = TRUE]
    ELSE IF b.t = "blank" THEN [a EXCEPT !.nl = b.nl]
    ELSE Line(IF a.t \in {"hdr", "brk"} THEN "brk" ELSE a.t, a.name, a.val,
              a.ind, b.nl)

\* f.writelines(new_lines) concatenates the strings; the lines of the text
\* written are what readlines() makes of the concatenation.
RECURSIVE TextLines(_)
TextLines(strings) ==
    IF Len(strings) <= 1 THEN strings
    ELSE IF strings[1].nl THEN <<strings[1]>> \o TextLines(Tail(strings))
         ELSE TextLines(<<Join(strings[1], strings[2])>> \o Tail(Tail(strings)))

\* The text one completed cycle writes for a store holding `lines`.
Reconciled(lines, profile_name, credentials) ==
    TextLines(NewLines(lines, profile_name, credentials))

\* Lines 166-167: profile_name = f"assumed-{account_name}".
ProfileName(account_name) ==
    CASE account_name = "dev" -> "assumed-dev"
      [] account_name = "main" -> "assumed-main"
      [] OTHER -> "assumed-other"

\* The write as it would be if it replaced the whole file.
OverlayReplacing(f, p, chunk) == chunk

\* write() of `chunk` at line offset p of a file holding f: the lines under
\* the chunk are overwritten, the lines after it stay; past the end of the
\* file the gap is zero bytes, which run into the first line written.
Overlay(f, p, chunk) ==
    IF p <= Len(f)
    THEN SubSeq(f, 1, p) \o chunk \o SubSeq(f, p + Len(chunk) + 1, Len(f))
    ELSE TextLines(f \o <<Line("nul", "", 0, FALSE, FALSE)>> \o chunk)

\* ------------------------------------------------------------------ state
VARIABLES
    fileExists,     \* credentials_file.exists()
    file,           \* the lines of ~/.aws/credentials
    pc,             \* where each process stands
    profile_name,   \* save_credentials_to_profile: profile_name
    credentials,    \* the credentials a process holds (None: none)
    lines,          \* save_credentials_to_profile: lines
    new_lines,      \* save_credentials_to_profile: new_lines
    profile_found,  \* save_credentials_to_profile: profile_found
    pos,            \* lines of new_lines already written to the file
    last_writer,    \* the process whose write() reached the file last
    config_file,    \* accounts.json
    access_log,     \* access_log.txt
    argv,           \* sys.argv[1:] of the running command
    account,        \* assume_role: account (None: not found)
    success,        \* assume_role: the broker returned credentials
    called,         \* the running command has called the broker
    attempts,       \* every broker call made, in order, with its outcome
    pre,            \* the files as they were when the running command began
    runs,           \* commands run so far
    written         \* the completed save_credentials_to_profile calls, in order

storeVars == <<fileExists, file>>
cycleVars == <<profile_name, lines, new_lines, profile_found, pos>>
cliVars == <<config_file, access_log, argv, account, success, called,
             attempts, pre, runs, written>>
vars == <<fileExists, file, pc, profile_name, credentials, lines, new_lines,
          profile_found, pos, last_writer, config_file, access_log,
          argv, account, success, called, attempts, pre, runs, written>>

\* The text process w is writing.
Out(w) == TextLines(new_lines[w])

\* The stores a behaviour can start from: every text of at most n lines,
\* with or without a terminator on its last line, or no file at all.
InitStoreOver(S, n) ==
    /\ fileExists \in BOOLEAN
    /\ \E f \in SeqsUpTo(S, n), t \in BOOLEAN :
          file = IF ~fileExists THEN <<>> ELSE IF t THEN f ELSE Unterminated(f)

InitStore(n) == InitStoreOver(Alphabet, n)

InitCycle ==
    /\ profile_name = [w \in Procs |-> ""]
    /\ credentials = [w \in Procs |-> None]
    /\ lines = [w \in Procs |-> <<>>]
    /\ new_lines = [w \in Procs |-> <<>>]
    /\ profile_found = [w \in Procs |-> FALSE]
    /\ pos = [w \in Procs |-> 0]
    /\ last_writer = 0

\* ------------------------------------------ save_credentials_to_profile
\* Lines 164-167: save_credentials_to_profile is entered, with profile_name
\* left to its default.
EnterSave(w, account_name, creds) ==
    /\ pc' = [pc EXCEPT ![w] = "read"]
    /\ profile_name' = [profile_name EXCEPT ![w] = ProfileName(account_name)]
    /\ credentials' = [credentials EXCEPT ![w] = creds]
    /\ lines' = [lines EXCEPT ![w] = <<>>]
    /\ new_lines' = [new_lines EXCEPT ![w] = <<>>]
    /\ profile_found' = [profile_found EXCEPT ![w] = FALSE]
    /\ pos' = [pos EXCEPT ![w] = 0]

\* A caller holding credentials calls save_credentials_to_profile.
CallSave(w, account_name, creds) ==
    /\ pc[w] = "idle"
    /\ EnterSave(w, account_name, creds)
    /\ UNCHANGED <<storeVars, last_writer, cliVars>>

\* Line 173: aws_dir.mkdir raises (the path is a file, or no permission);
\* nothing catches it.
MkdirFails(w) ==
    /\ pc[w] = "read"
    /\ ~fileExists
    /\ pc' = [pc EXCEPT ![w] = "crashed"]
    /\ UNCHANGED <<storeVars, credentials, cycleVars, last_writer, cliVars>>

\* Lines 177-178: open or readlines raises; nothing catches it.
ReadFails(w) ==
    /\ pc[w] = "read"
    /\ fileExists
    /\ pc' = [pc EXCEPT ![w] = "crashed"]
    /\ UNCHANGED <<storeVars, credentials, cycleVars, last_writer, cliVars>>

\* Lines 173-218: the directory is there, the file is read (an absent file
\* reads as no lines) and new_lines is built.
ReadStore(w) ==
    /\ pc[w] = "read"
    /\ lines' = [lines EXCEPT ![w] = IF fileExists THEN file ELSE <<>>]
    /\ new_lines' = [new_lines EXCEPT ![w] =
                        NewLines(lines'[w], profile_name[w], credentials[w])]
    /\ profile_found' = [profile_found EXCEPT ![w] =
                            ProfileFound(lines'[w], profile_name[w])]
    /\ pc' = [pc EXCEPT ![w] = "open"]
    /\ UNCHANGED <<storeVars, profile_name, credentials, pos, last_writer, cliVars>>

\* Line 222: open(credentials_file, 'w') creates or truncates the file.
OpenStore(w) ==
    /\ pc[w] = "open"
    /\ fileExists' = TRUE
    /\ file' = <<>>
    /\ pos' = [pos EXCEPT ![w] = 0]
    /\ pc' = [pc EXCEPT ![w] = "write"]
    /\ UNCHANGED <<profile_name, credentials, lines, new_lines, profile_found,
                   last_writer, cliVars>>

\* Lines 222, 231-232: open raises IOError, which is reported.
OpenFails(w) ==
    /\ pc[w] = "open"
    /\ pc' = [pc EXCEPT ![w] = "failed"]
    /\ UNCHANGED <<storeVars, credentials, cycleVars, last_writer, cliVars>>

\* Line 223: one write() of the buffered text, up to line j, at the
\* descriptor's own offset.
WriteChunk(w, j) ==
    /\ pc[w] = "write"
    /\ pos[w] < j
    /\ j <= Len(Out(w))
    /\ file' = Overlay(file, pos[w], SubSeq(Out(w), pos[w] + 1, j))
    /\ pos' = [pos EXCEPT ![w] = j]
    /\ last_writer' = w
    /\ UNCHANGED <<fileExists, pc, profile_name, credentials, lines, new_lines,
                   profile_found, cliVars>>

\* Lines 223, 231-232: a write raises IOError before the text is complete.
WriteFails(w) ==
    /\ pc[w] = "write"
    /\ pos[w] < Len(Out(w))
    /\ pc' = [pc EXCEPT ![w] = "failed"]
    /\ UNCHANGED <<storeVars, credentials, cycleVars, last_writer, cliVars>>

\* Lines 222-229: the file is closed with all of the text written.
CloseStore(w) ==
    /\ pc[w] = "write"
    /\ pos[w] = Len(Out(w))
    /\ pc' = [pc EXCEPT ![w] = "done"]
    /\ UNCHANGED <<storeVars, credentials, cycleVars, last_writer, cliVars>>

\* ------------------------------------------------- accounts.json
AccountNames == {"dev", "main"}

\* An entry of the 'accounts' list. account_id is the kind of value it
\* holds: "12digits", "5digits", "12unicodedigits" (twelve digits that are
\* not all ASCII), "number" (a JSON number, not a string).
Account(name, account_id, has_role) ==
    [has_name |-> TRUE, name |-> name, has_id |-> TRUE,
     account_id |-> account_id, has_role |-> has_role]

ConfigFile(exists, json, shape, accounts) ==
    [exists |-> exists, json |-> json, shape |-> shape, accounts |-> accounts]

NoConfigFile == ConfigFile(FALSE, "", "", <<>>)

\* Lines 67-84: create_default_config.
DefaultConfigFile ==
    ConfigFile(TRUE, "ok", "list",
               << Account("main", "12digits", FALSE),
                  Account("dev", "12digits", TRUE) >>)

\* The registries a command can find.
RegistryFiles ==
    { NoConfigFile,
      DefaultConfigFile,
      ConfigFile(TRUE, "invalid", "", <<>>),
      ConfigFile(TRUE, "ok", "no_accounts_key", <<>>),
      ConfigFile(TRUE, "ok", "accounts_not_list", <<>>),
      ConfigFile(TRUE, "ok", "list", <<>>),
      ConfigFile(TRUE, "ok", "list",
                 <<Account("dev", "12digits", TRUE), Account("main", "12digits", TRUE)>>),
      ConfigFile(TRUE, "ok", "list",
                 <<Account("dev", "12digits", FALSE), Account("dev", "12digits", TRUE)>>),
      ConfigFile(TRUE, "ok", "list",
                 <<Account("dev", "12digits", TRUE), Account("main", "5digits", TRUE)>>),
      ConfigFile(TRUE, "ok", "list", <<Account("dev", "12unicodedigits", TRUE)>>),
      ConfigFile(TRUE, "ok", "list", <<Account("dev", "number", TRUE)>>),
      ConfigFile(TRUE, "ok", "list",
                 <<[Account("dev", "12digits", TRUE) EXCEPT !.has_name = FALSE]>>),
      ConfigFile(TRUE, "ok", "list",
                 <<[Account("dev", "12digits", TRUE) EXCEPT !.has_id = FALSE]>>) }

\* The test of line 31 as it would be if the default registry were written at every start.
NeedsDefaultAlways(cfg) == TRUE

\* Line 31: not os.path.exists(self.config_file).
NeedsDefault(cfg) == ~cfg.exists

\* Line 62: account_id.isdigit() and len(account_id) == 12; a value that is
\* not a string has no isdigit (line 44 turns that into ConfigError).
AccountIdOk(account_id) == account_id \in {"12digits", "12unicodedigits"}

\* Lines 35-63: load_config returns the configuration (no ConfigError).
LoadOk(cfg) ==
    /\ cfg.json = "ok"
    /\ cfg.shape = "list"
    /\ \A i \in 1..Len(cfg.accounts) :
          /\ cfg.accounts[i].has_name
          /\ cfg.accounts[i].has_id
          /\ AccountIdOk(cfg.accounts[i].account_id)

\* Lines 104-108: the index of the first account of that name (None: none).
Lookup(cfg, account_name) ==
    LET found == {i \in 1..Len(cfg.accounts) : cfg.accounts[i].name = account_name}
    IN  IF found = {} THEN None
        ELSE CHOOSE i \in found : \A k \in found : i <= k

\* The status as it would be if every attempt were logged as a success.
LogStatusAlwaysSuccess(ok) == "SUCCESS"

\* Line 239.
LogStatus(ok) == IF ok THEN "SUCCESS" ELSE "FAILED"

\* Lines 240-243: the line log_access writes (the timestamp and the session
\* name derived from it are left out).
LogEntry(account_name, ok) ==
    [status |-> LogStatus(ok), account |-> account_name, error |-> ~ok]

\* A line some earlier use left in access_log.txt.
OldLogEntry == [status |-> "SUCCESS", account |-> "old", error |-> FALSE]

\* The test of line 301 as it would be if the profile were written whatever
\* assume_role returned.
ShouldSaveAlways(creds) == TRUE

\* Line 301: if credentials.
ShouldSave(creds) == creds # None

\* The files as a command finds them.
Snapshot ==
    [config_file |-> config_file, fileExists |-> fileExists, file |-> file,
     access_log |-> access_log]

InitCliIdle ==
    /\ config_file = NoConfigFile
    /\ access_log = <<>>
    /\ argv = <<>>
    /\ account = None
    /\ success = FALSE
    /\ called = FALSE
    /\ attempts = <<>>
    /\ pre = Snapshot
    /\ runs = 0
    /\ written = <<>>

\* ------------------------- Spec: one update cycle, from any store
Init ==
    /\ InitStore(MaxLen)
    /\ InitCycle
    /\ pc = [w \in Procs |-> "idle"]
    /\ InitCliIdle

Next ==
    \/ \E a \in AccountNames, c \in Creds : CallSave(1, a, c)
    \/ MkdirFails(1)
    \/ ReadFails(1)
    \/ ReadStore(1)
    \/ OpenStore(1)
    \/ OpenFails(1)
    \/ \E j \in 1..(MaxLen + 6) : WriteChunk(1, j)
    \/ WriteFails(1)
    \/ CloseStore(1)

Spec == Init /\ [][Next]_vars

\* ------------------------------------------------- reading a store text
\* The text of a line without its indentation and terminator.
Strip(line) == [t |-> line.t, name |-> line.name, val |-> line.val]

\* The blocks of a text: a header line opens a block, the non-blank lines
\* up to the next header are its body, lines before the first header belong
\* to no block.
RECURSIVE BlocksFrom(_, _, _)
BlocksFrom(f, i, blocks) ==
    IF i > Len(f) THEN blocks
    ELSE IF f[i].t = "hdr"
         THEN BlocksFrom(f, i + 1,
                         Append(blocks, [name |-> f[i].name, body |-> <<>>]))
         ELSE IF IsBlank(f[i]) \/ blocks = <<>>
              THEN BlocksFrom(f, i + 1, blocks)
              ELSE BlocksFrom(f, i + 1,
                      [blocks EXCEPT ![Len(blocks)].body = Append(@, Strip(f[i]))])

Blocks(f) == BlocksFrom(f, 1, <<>>)

IsNotNamed(n, b) == b.name # n

\* The blocks of f not named n, in file order.
OtherBlocks(f, n) == SelectSeq(Blocks(f), LAMBDA b : IsNotNamed(n, b))

\* The indices of the header lines of f named n.
HeadersNamed(f, n) == {i \in 1..Len(f) : f[i].t = "hdr" /\ f[i].name = n}

\* The body of the block NewBlock writes.
CredentialBody(creds) ==
    << [t |-> "kv", name |-> "aws_access_key_id", val |-> creds],
       [t |-> "kv", name |-> "aws_secret_access_key", val |-> creds],
       [t |-> "kv", name |-> "aws_session_token", val |-> creds] >>

\* A run of k blank lines somewhere in f.
HasBlankRun(f, k) ==
    \E i \in 1..Len(f) : i + k - 1 <= Len(f) /\ \A j \in i..(i + k - 1) : IsBlank(f[j])

\* ------------------------------------------------------- claims C1 .. C6
\* C1: after a completed save_credentials_to_profile for profile n, every
\* block whose header is not [n] is still in the file, with the same
\* header and the same non-blank lines, in the same relative order.
C1_OtherBlocksPreserved ==
    \A w \in Procs :
        pc[w] = "done" =>
            OtherBlocks(file, profile_name[w]) = OtherBlocks(lines[w], profile_name[w])

\* C2: a second save_credentials_to_profile(n, B) right after a completed
\* first one would write the file it finds: the cycle is idempotent, for a
\* store with or without a terminator on its last line.
C2_Idempotent ==
    \A w \in Procs :
        pc[w] = "done" =>
            Reconciled(file, profile_name[w], credentials[w]) = file

\* C3: at every point of an update cycle, also after a failed write, the
\* store holds either the text read at the start of the cycle or the full
\* reconciled text.
C3_OldOrNew ==
    \A w \in Procs :
        pc[w] \in {"open", "write", "done", "failed"} =>
            file = lines[w] \/ file = Out(w)

\* C4: after a completed save_credentials_to_profile for profile n the last
\* block of the file is [n], holding exactly the three credential lines
\* with the new values in order, and these are the last lines of the file.
C4_NewBlockLast ==
    \A w \in Procs :
        pc[w] = "done" =>
            LET b == Blocks(file)
                k == Len(file)
            IN  /\ b # <<>>
                /\ b[Len(b)] = [name |-> profile_name[w],
                                body |-> CredentialBody(credentials[w])]
                /\ k >= 4
                /\ file[k - 3].t = "hdr"
                /\ <<Strip(file[k - 2]), Strip(file[k - 1]), Strip(file[k])>>
                        = CredentialBody(credentials[w])
                /\ file[k].nl

\* C4 witness: a completed cycle whose target was in the store before, in
\* front of another block.
C4_Witness ==
    /\ pc[1] = "done"
    /\ profile_found[1]
    /\ Len(Blocks(lines[1])) >= 2
    /\ Blocks(lines[1])[1].name = profile_name[1]

\* C5: the file a completed cycle wrote holds no two consecutive blank
\* lines, whatever runs of blank lines the store held.
C5_NoTwoBlankLines ==
    \A w \in Procs :
        pc[w] = "done" => ~HasBlankRun(file, 2)

\* C5 witness: a completed cycle on a store that held three blank lines in
\* a row.
C5_Witness == pc[1] = "done" /\ HasBlankRun(lines[1], 3)

ConcAlphabet == Alphabet \cup {Header("default", i) : i \in BOOLEAN}

InitConc ==
    /\ InitStoreOver(ConcAlphabet, MaxConcLen)
    /\ InitCycle
    /\ pc = [w \in Procs |-> "idle"]
    /\ InitCliIdle

\* Process w makes its call, with credentials of its own.
Enter(w) == \E a \in AccountNames : CallSave(w, a, w)

NextConc ==
    \E w \in Procs :
        \/ Enter(w)
        \/ ReadStore(w)
        \/ OpenStore(w)
        \/ \E j \in 1..(MaxConcLen + 6) : WriteChunk(w, j)
        \/ CloseStore(w)

SpecConc == InitConc /\ [][NextConc]_vars

\* Every block of the sequence bs is a block of the text f.
HoldsBlocks(f, bs) ==
    \A i \in 1..Len(bs) : \E k \in 1..Len(Blocks(f)) : Blocks(f)[k] = bs[i]

\* C7: when two update cycles interleave in any order and both have
\* finished, the file is exactly the complete reconciled output of the
\* writer that wrote last, and holds every non-target block that writer
\* read.
C7_LastWriterWins ==
    (pc[1] = "done" /\ pc[2] = "done") =>
        /\ file = Out(last_writer)
        /\ HoldsBlocks(file, OtherBlocks(lines[last_writer],
                                         profile_name[last_writer]))

\* ------------------------------------------------ SpecCli: the commands
\* The command lines tried: none, list, whoami, an unknown command, assume
\* without a name, assume with a configured or an unknown name.
ArgvChoices ==
    { <<>>, <<"list">>, <<"whoami">>, <<"bogus">>, <<"assume">>,
      <<"assume", "dev">>, <<"assume", "main">>, <<"assume", "nope">> }

\* Lines 271-275, 19-45: a process starts; AccountManager() loads the
\* registry, writing the default one when there is none, and creates the
\* broker client. ConfigError and NoCredentialsError end the command.
Construct(args, client_ok) ==
    /\ pc[1] = "idle"
    /\ runs < MaxRuns
    /\ runs' = runs + 1
    /\ argv' = args
    /\ pre' = Snapshot
    /\ config_file' = IF NeedsDefault(config_file) THEN DefaultConfigFile
                      ELSE config_file
    /\ pc' = [pc EXCEPT ![1] = IF LoadOk(config_file') /\ client_ok
                               THEN "main" ELSE "exit"]
    /\ account' = None
    /\ success' = FALSE
    /\ called' = FALSE
    /\ credentials' = [credentials EXCEPT ![1] = None]
    /\ UNCHANGED <<storeVars, cycleVars, last_writer, access_log, attempts,
                   written>>

\* What every step of main that touches no file leaves alone.
NoFileTouched ==
    UNCHANGED <<storeVars, cycleVars, last_writer, config_file,
                access_log, argv, attempts, pre, runs, written>>

\* Lines 277-285: no command, the usage text.
Usage ==
    /\ pc[1] = "main"
    /\ Len(argv) < 1
    /\ pc' = [pc EXCEPT ![1] = "exit"]
    /\ UNCHANGED <<credentials, account, success, called>>
    /\ NoFileTouched

\* Lines 289-290: list.
ListAccounts ==
    /\ pc[1] = "main"
    /\ Len(argv) >= 1 /\ argv[1] = "list"
    /\ pc' = [pc EXCEPT ![1] = "exit"]
    /\ UNCHANGED <<credentials, account, success, called>>
    /\ NoFileTouched

\* Lines 304-305, 251-264: whoami prints the identity or the error.
WhoAmI ==
    /\ pc[1] = "main"
    /\ Len(argv) >= 1 /\ argv[1] = "whoami"
    /\ pc' = [pc EXCEPT ![1] = "exit"]
    /\ UNCHANGED <<credentials, account, success, called>>
    /\ NoFileTouched

\* Lines 307-309: any other word.
UnknownCommand ==
    /\ pc[1] = "main"
    /\ Len(argv) >= 1 /\ argv[1] \notin {"list", "assume", "whoami"}
    /\ pc' = [pc EXCEPT ![1] = "exit"]
    /\ UNCHANGED <<credentials, account, success, called>>
    /\ NoFileTouched

\* Lines 292-296: assume without an account name.
AssumeNoName ==
    /\ pc[1] = "main"
    /\ Len(argv) = 1 /\ argv[1] = "assume"
    /\ pc' = [pc EXCEPT ![1] = "exit"]
    /\ UNCHANGED <<credentials, account, success, called>>
    /\ NoFileTouched

\* Lines 298-124: assume_role looks the account up; without the account or
\* without its role_arn it returns None, else it goes on to the broker.
AssumeLookup ==
    /\ pc[1] = "main"
    /\ Len(argv) >= 2 /\ argv[1] = "assume"
    /\ account' = Lookup(config_file, argv[2])
    /\ pc' = [pc EXCEPT ![1] =
                IF account' = None THEN "returned"
                ELSE IF ~config_file.accounts[account'].has_role THEN "returned"
                ELSE "sts"]
    /\ UNCHANGED <<credentials, success, called>>
    /\ NoFileTouched

\* Lines 128-136: the broker returns credentials (new ones at each call).
BrokerReturns ==
    /\ pc[1] = "sts"
    /\ called' = TRUE
    /\ success' = TRUE
    /\ credentials' = [credentials EXCEPT ![1] = runs]
    /\ attempts' = Append(attempts,
                          [account |-> argv[2], ok |-> TRUE, logged |-> "pending"])
    /\ pc' = [pc EXCEPT ![1] = "log"]
    /\ UNCHANGED <<storeVars, cycleVars, last_writer, config_file,
                   access_log, argv, account, pre, runs, written>>

\* Lines 143-161: the broker call raises ClientError or any other Exception.
BrokerFails ==
    /\ pc[1] = "sts"
    /\ called' = TRUE
    /\ success' = FALSE
    /\ attempts' = Append(attempts,
                          [account |-> argv[2], ok |-> FALSE, logged |-> "pending"])
    /\ pc' = [pc EXCEPT ![1] = "log"]
    /\ UNCHANGED <<storeVars, credentials, cycleVars, last_writer,
                   config_file, access_log, argv, account, pre, runs, written>>

\* Lines 139, 156, 161, 234-247: log_access appends the line; assume_role
\* then returns the credentials or None.
LogAccess ==
    /\ pc[1] = "log"
    /\ access_log' = Append(access_log, LogEntry(argv[2], success))
    /\ attempts' = [attempts EXCEPT ![Len(attempts)].logged = "yes"]
    /\ pc' = [pc EXCEPT ![1] = "returned"]
    /\ UNCHANGED <<storeVars, credentials, cycleVars, last_writer,
                   config_file, argv, account, success, called, pre, runs, written>>

\* Lines 245-249: the log cannot be written; IOError is caught, a warning
\* is printed.
LogAccessFails ==
    /\ pc[1] = "log"
    /\ attempts' = [attempts EXCEPT ![Len(attempts)].logged = "no"]
    /\ pc' = [pc EXCEPT ![1] = "returned"]
    /\ UNCHANGED <<storeVars, credentials, cycleVars, last_writer,
                   config_file, access_log, argv, account, success, called,
                   pre, runs, written>>

\* Lines 139, 156, 161, 246-247: the entry cannot be encoded for the log
\* file (open() writes in the locale's encoding). The UnicodeEncodeError is
\* no IOError: raised at line 156 or 161 it leaves assume_role; raised at
\* line 139 it is caught at line 159 and raised again by the log_access of
\* line 161. main does not catch it.
LogAccessRaises ==
    /\ pc[1] = "log"
    /\ attempts' = [attempts EXCEPT ![Len(attempts)].logged = "no"]
    /\ pc' = [pc EXCEPT ![1] = "raised"]
    /\ UNCHANGED <<storeVars, credentials, cycleVars, last_writer,
                   config_file, access_log, argv, account, success, called,
                   pre, runs, written>>

\* Lines 299-302: main, holding credentials, saves the profile.
MainSave ==
    /\ pc[1] = "returned"
    /\ ShouldSave(credentials[1])
    /\ EnterSave(1, argv[2], credentials[1])
    /\ UNCHANGED <<storeVars, last_writer, cliVars>>

\* Lines 299-301: main, holding None, is done.
MainSkip ==
    /\ pc[1] = "returned"
    /\ ~ShouldSave(credentials[1])
    /\ pc' = [pc EXCEPT ![1] = "exit"]
    /\ UNCHANGED <<storeVars, credentials, cycleVars, last_writer, cliVars>>

\* Line 223 for a text that fits the buffer: one write() at close.
WriteAll(w) == WriteChunk(w, Len(Out(w)))

\* The process ends; the next command is a new process.
Exit ==
    /\ pc[1] \in {"exit", "done", "failed", "crashed", "raised"}
    /\ pc' = [pc EXCEPT ![1] = "idle"]
    /\ UNCHANGED <<storeVars, credentials, cycleVars, last_writer, cliVars>>

InitCli ==
    /\ InitStore(MaxCliLen)
    /\ InitCycle
    /\ pc = [w \in Procs |-> "idle"]
    /\ config_file \in RegistryFiles
    /\ access_log \in {<<>>, <<OldLogEntry>>}
    /\ argv = <<>>
    /\ account = None
    /\ success = FALSE
    /\ called = FALSE
    /\ attempts = <<>>
    /\ pre = Snapshot
    /\ runs = 0
    /\ written = <<>>

NextCli ==
    \/ \E args \in ArgvChoices, client_ok \in BOOLEAN : Construct(args, client_ok)
    \/ Usage
    \/ ListAccounts
    \/ WhoAmI
    \/ UnknownCommand
    \/ AssumeNoName
    \/ AssumeLookup
    \/ BrokerReturns
    \/ BrokerFails
    \/ LogAccess
    \/ LogAccessFails
    \/ LogAccessRaises
    \/ MainSave
    \/ MainSkip
    \/ MkdirFails(1)
    \/ ReadFails(1)
    \/ ReadStore(1)
    \/ OpenStore(1)
    \/ OpenFails(1)
    \/ WriteAll(1)
    \/ WriteFails(1)
    \/ CloseStore(1)
    \/ Exit

SpecCli == InitCli /\ [][NextCli]_vars

\* ------------------------------------------------------ claims C8 .. C10
\* The credential store differs from what the running command found.
StoreChanged == fileExists # pre.fileExists \/ file # pre.file

\* The running command is assume with an account name.
IsAssume == Len(argv) >= 2 /\ argv[1] = "assume"

\* C8: the credential store is written only after the broker has returned
\* credentials: a command that has not got credentials from the broker has
\* not entered the update cycle and has left the store as it found it, and
\* an assume command that ends on an unknown account or an account without
\* a role has never called the broker.
C8_StoreWrittenOnlyWithCredentials ==
    /\ StoreChanged => called /\ success
    /\ pc[1] \in {"read", "open", "write", "done", "failed", "crashed"}
            => called /\ success
    /\ (pc[1] = "exit" /\ IsAssume /\ ~success) => ~StoreChanged
    /\ (pc[1] = "exit" /\ IsAssume
            /\ (account = None \/ ~config_file.accounts[account].has_role))
         => ~called

\* C8 witness: an assume command has ended after a failed broker call, on a
\* store that an earlier command had written.
C8_Witness ==
    /\ pc[1] = "exit"
    /\ IsAssume
    /\ called
    /\ ~success
    /\ file # <<>>

\* The log lines of the attempts whose line was written.
RECURSIVE LoggedLines(_)
LoggedLines(as) ==
    IF as = <<>> THEN <<>>
    ELSE (IF as[1].logged = "yes"
          THEN << [status |-> IF as[1].ok THEN "SUCCESS" ELSE "FAILED",
                   account |-> as[1].account, error |-> ~as[1].ok] >>
          ELSE <<>>) \o LoggedLines(Tail(as))

\* C9: over any sequence of commands the audit log is the lines it held
\* at the start followed by exactly one line per broker call whose line
\* could be written, in call order, marked SUCCESS exactly when the broker
\* returned credentials; only the call in flight has no line yet.
C9_OneLinePerAttempt ==
    LET new == LoggedLines(attempts)
        old == Len(access_log) - Len(new)
    IN  /\ old \in {0, 1}
        /\ old = 1 => access_log[1] = OldLogEntry
        /\ SubSeq(access_log, old + 1, Len(access_log)) = new
        /\ \A i \in 1..Len(attempts) :
              /\ attempts[i].logged = "pending" => i = Len(attempts) /\ pc[1] = "log"
              /\ attempts[i].logged = "no" => i < Len(attempts) \/ pc[1] # "log"
        /\ pc[1] = "log" =>
              attempts # <<>> /\ attempts[Len(attempts)].logged = "pending"

\* C9 witness: a successful and then a failed attempt, both logged after a
\* line that was in the log before.
C9_Witness ==
    /\ Len(attempts) = 2
    /\ attempts[1].ok /\ attempts[1].logged = "yes"
    /\ ~attempts[2].ok /\ attempts[2].logged = "yes"
    /\ Len(access_log) = 3

\* The command line names no command, an unknown command, or assume
\* without an account name.
NoCommand ==
    \/ Len(argv) = 0
    \/ Len(argv) >= 1 /\ argv[1] \notin {"list", "assume", "whoami"}
    \/ argv = <<"assume">>

\* C10 as stated: such a run changes no file, whether the registry file
\* was there or not.
C10_NoFileChanged ==
    (pc[1] = "exit" /\ NoCommand) => Snapshot = pre

\* C10 amended: such a run changes neither the credential store nor the
\* audit log, and leaves an existing registry file as it was; an absent
\* registry file is created with the default registry.
C10_OnlyDefaultRegistryCreated ==
    (pc[1] = "exit" /\ NoCommand) =>
        /\ ~StoreChanged
        /\ access_log = pre.access_log
        /\ config_file = IF pre.config_file.exists THEN pre.config_file
                         ELSE DefaultConfigFile

\* C10 witness: an unknown command has ended, started without a registry
\* file, with a log and a store that held text.
C10_Witness ==
    /\ pc[1] = "exit"
    /\ argv = <<"bogus">>
    /\ ~pre.config_file.exists
    /\ config_file = DefaultConfigFile
    /\ access_log # <<>>

\* ---------------------------------------------------------- claim C11
\* Some entry of the registry the running command loaded has an account_id
\* that is not twelve ASCII digits.
HasBadAccountId ==
    \E i \in 1..Len(config_file.accounts) :
        ~config_file.accounts[i].has_id
            \/ config_file.accounts[i].account_id # "12digits"

\* C11: when an entry of the registry has an account_id that is not exactly
\* twelve ASCII digits, load_config raises ConfigError and the process runs
\* no command: it ends without a broker call, a store write or a log line.
C11_OnlyAsciiDigitsAccepted ==
    (pc[1] # "idle" /\ HasBadAccountId) =>
        /\ pc[1] = "exit"
        /\ ~called
        /\ ~StoreChanged
        /\ access_log = pre.access_log

\* ---------------------------------------------------------- claim C12
IsNeither(p, q, b) == b.name # p /\ b.name # q

\* The blocks of f named neither p nor q, in file order.
BystanderBlocks(f, p, q) == SelectSeq(Blocks(f), LAMBDA b : IsNeither(p, q, b))

\* C12: when two update cycles for targets p and q interleave in any order
\* and both have finished, every block that was in the store before either
\* started and is named neither p nor q is still in the file, its lines
\* unchanged.
C12_BystandersSurvive ==
    (pc[1] = "done" /\ pc[2] = "done") =>
        HoldsBlocks(file, BystanderBlocks(pre.file, profile_name[1], profile_name[2]))

\* -------------------- SpecSeq: calls one after the other, from no store
\* The accounts whose profiles are saved.
SeqNames == AccountNames \cup {"ops"}

\* There is no credential store, or an empty one.
InitSeq ==
    /\ fileExists \in BOOLEAN
    /\ file = <<>>
    /\ InitCycle
    /\ pc = [w \in Procs |-> "idle"]
    /\ InitCliIdle

\* The next call is made once the one before has returned.
SeqCall(account_name, creds) ==
    /\ Len(written) < MaxSeqCalls
    /\ CallSave(1, account_name, creds)

\* Lines 225-229: the call returns after a complete write.
Completed ==
    /\ pc[1] = "done"
    /\ pc' = [pc EXCEPT ![1] = "idle"]
    /\ written' = Append(written, [profile |-> profile_name[1],
                                   creds |-> credentials[1]])
    /\ UNCHANGED <<storeVars, credentials, cycleVars, last_writer, config_file,
                   access_log, argv, account, success, called, attempts, pre,
                   runs>>

NextSeq ==
    \/ \E a \in SeqNames, c \in Creds : SeqCall(a, c)
    \/ ReadStore(1)
    \/ OpenStore(1)
    \/ \E j \in 1..(5 * Cardinality(SeqNames)) : WriteChunk(1, j)
    \/ CloseStore(1)
    \/ Completed

SpecSeq == InitSeq /\ [][NextSeq]_vars

\* ---------------------------------------------------------- claim C13
IsNotProfile(n, e) == e.profile # n

\* The last write of each profile written, in the order of these writes.
RECURSIVE LastWrites(_)
LastWrites(h) ==
    IF h = <<>> THEN <<>>
    ELSE LET last == h[Len(h)]
             before == LastWrites(SubSeq(h, 1, Len(h) - 1))
         IN  Append(SelectSeq(before, LAMBDA e : IsNotProfile(last.profile, e)),
                    last)

\* The text holding one credential block per write of ws, in order, one
\* blank line between two blocks, none before the first or after the last.
RECURSIVE BlocksText(_)
BlocksText(ws) ==
    IF ws = <<>> THEN <<>>
    ELSE << Line("hdr", ws[1].profile, 0, FALSE, TRUE),
            Line("kv", "aws_access_key_id", ws[1].creds, FALSE, TRUE),
            Line("kv", "aws_secret_access_key", ws[1].creds, FALSE, TRUE),
            Line("kv", "aws_session_token", ws[1].creds, FALSE, TRUE) >>
         \o (IF Len(ws) = 1 THEN <<>>
             ELSE <<Line("blank", "", 0, FALSE, TRUE)>> \o BlocksText(Tail(ws)))

Retained(w) == ScanFrom(lines[w], profile_name[w], 1, FALSE, <<>>)

HasNonBlank(f) == \E i \in 1..Len(f) : ~IsBlank(f[i])

\* C14: when the scan retains a non-blank line, the file of a completed
\* cycle has the header of the appended block on a line of its own, exactly
\* one blank line before it and a retained non-blank line before that,
\* whether or not the last line of the file read was terminated.
C14_OneBlankLineBeforeHeader ==
    (pc[1] = "done" /\ HasNonBlank(Retained(1))) =>
        /\ Len(file) >= 6
        /\ file[Len(file) - 3] = Header(profile_name[1], FALSE)
        /\ IsBlank(file[Len(file) - 4])
        /\ ~IsBlank(file[Len(file) - 5])

\* ---------------------------------------------------------- claim C15
\* The text is one block named n: its header, then lines none of which is
\* a header.
OnlyTargetBlock(f, n) ==
    /\ f # <<>>
    /\ IsTargetHeader(f[1], n)
    /\ \A i \in 2..Len(f) : f[i].t # "hdr"

\* C15: when there is no credentials file, or it is empty, or it holds
\* nothing but the target block, the file of a completed cycle is exactly
\* the new block: the header and the three credential lines, no blank line
\* before.
C15_ExactlyNewBlock ==
    (/\ pc[1] = "done"
     /\ \/ ~pre.fileExists
        \/ pre.file = <<>>
        \/ OnlyTargetBlock(pre.file, profile_name[1])) =>
        file = << Line("hdr", profile_name[1], 0, FALSE, TRUE),
                  Line("kv", "aws_access_key_id", credentials[1], FALSE, TRUE),
                  Line("kv", "aws_secret_access_key", credentials[1], FALSE, TRUE),
                  Line("kv", "aws_session_token", credentials[1], FALSE, TRUE) >>

\* ---------------------------------------------------------- claim C16
\* The non-blank lines of a text that come before its first section header,
\* without indentation and terminator.
RECURSIVE PrefixFrom(_, _)
PrefixFrom(f, i) ==
    IF i > Len(f) \/ f[i].t = "hdr" THEN <<>>
    ELSE (IF IsBlank(f[i]) THEN <<>> ELSE <<Strip(f[i])>>) \o PrefixFrom(f, i + 1)

Prefix(f) == PrefixFrom(f, 1)

\* C16: lines of the credentials file that come before the first section
\* header are discarded by a completed cycle: the file written has no
\* non-blank line before its first header.
C16_PrefixDiscarded ==
    pc[1] = "done" => Prefix(file) = <<>>

IsInitialSegment(a, b) == Len(a) <= Len(b) /\ SubSeq(b, 1, Len(a)) = a

\* C16 as the code has it: the non-blank lines before the first section
\* header of the file read are retained; they are, in order and unchanged,
\* the first non-blank lines of the file written, before its first header.
C16_PrefixRetained ==
    pc[1] = "done" => IsInitialSegment(Prefix(pre.file), Prefix(file))

\* C16 witness: a cycle has completed on a file that held a non-blank line
\* before its first section header.
C16_Witness ==
    /\ pc[1] = "done"
    /\ Prefix(pre.file) # <<>>
    /\ \E i \in 1..Len(pre.file) : pre.file[i].t = "hdr"

\* ---------------------------------------------------------- claim C17
\* C17: an I/O failure during a cycle (creating the directory, reading the
\* file, writing the new text) is caught and reported: the call returns to
\* its caller, no exception leaves save_credentials_to_profile.
C17_FailureReported ==
    pc[1] # "crashed"

\* ---------------------------------------------------------- claim C18
\* The broker has been called in this run and the line of the call could
\* not be appended to the log.
LogFailed ==
    called /\ attempts # <<>> /\ attempts[Len(attempts)].logged = "no"

\* C18: a failure to append to the audit log does not change the outcome.
\* After the broker returned credentials, assume_role returns them and the
\* update cycle runs: once it completes the file ends with the new block
\* of the profile. After a broker error, assume_role returns None, the
\* command ends and the store is as it was.
C18_LogFailureKeepsOutcome ==
    (pc[1] # "idle" /\ LogFailed) =>
        IF success
        THEN /\ credentials[1] # None
             /\ pc[1] \in {"returned", "read", "open", "write", "done",
                           "failed", "crashed"}
             /\ pc[1] = "done" =>
                   /\ Len(file) >= 4
                   /\ SubSeq(file, Len(file) - 3, Len(file))
                         = NewBlock(ProfileName(argv[2]), credentials[1])
        ELSE /\ credentials[1] = None
             /\ pc[1] \in {"returned", "exit"}
             /\ ~StoreChanged

====
